---- MODULE Spec2Model ----
(***************************************************************************)
(* Batch construction of utils/dataset.py: the vocoder train/test split,   *)
(* the two collate functions, the TTS dataset with its text map, and the   *)
(* length-binned sampler.                                                  *)
(*                                                                         *)
(* Arrays and lists are sequences; a Python index i is position i + 1.     *)
(* Every random draw (random.shuffle, np.random.randint) is a choice over  *)
(* all the values the call can return.                                     *)
(***************************************************************************)
EXTENDS Integers, Sequences, FiniteSets, TLC

VARIABLES
    \* ---- BinnedLengthSampler
    lengths,        \* constructor argument: the per-example lengths
    batch_size,     \* constructor argument / self.batch_size
    bin_size_arg,   \* constructor argument bin_size (0 is the falsy value)
    bin_size,       \* self.bin_size
    idx,            \* self.idx: the stored index array (shared with idx.numpy())
    sorted_idx,     \* history: self.idx as torch.sort left it
    sampler_pc,     \* "new", "ready", "AssertionError"
    iter_status,    \* result of the last __iter__: "none", "ok", "ValueError"
    iter_out,       \* the indices the last __iter__ yields
    iters,          \* number of __iter__ calls so far, saturating at 2
    \* ---- collate_vocoder
    hp_hop_length, hp_voc_seq_len, hp_voc_pad,
    voc_batch,      \* the batch: sequence of [mel, wav] examples
    voc_pc,         \* "new", "returned", "ValueError"
    voc_mel_offsets, voc_sig_offsets,
    voc_mels,       \* stacked mel crops
    voc_labels,     \* stacked waveform crops
    voc_x,          \* labels[:, :voc_seq_len], the codes handed to label_2_float
    voc_y,          \* labels[:, 1:]
    \* ---- collate_tts
    hp_tts_r,
    tts_batch,      \* the batch: sequence of [x, mel] examples
    tts_pc,         \* "new", "returned"
    tts_chars,      \* returned token array
    tts_mel_padded, \* the stacked mel array before the rescale (line 164)
    tts_mel,        \* returned mel array
    \* ---- get_vocoder_datasets
    hp_voc_test_samples,
    voc_dataset,    \* dataset.pkl: sequence of <<id, length>>
    split_pc,       \* "new", "returned"
    shuffled_ids,   \* dataset_ids after random.shuffle
    train_ids, test_ids,
    \* ---- get_tts_dataset / TTSDataset
    hp_tts_max_input_len, hp_tts_bin_lengths,
    tts_dataset,    \* dataset.pkl: sequence of <<id, length>>
    text_dict,      \* text_dict.pkl: id -> text
    tts_batch_size, \* batch_size argument of get_tts_dataset
    load_pc,        \* "new", "returned", "AssertionError"
    metadata,       \* TTSDataset.metadata (the kept ids)
    mel_lengths,    \* lengths of the kept ids
    tts_sampler,    \* "none" or the sampler's fields
    accessed,       \* number of __getitem__ calls so far, saturating at 1
    getitem_index,  \* index of the last __getitem__
    getitem_status  \* "none", "ok", "KeyError"

sampler_vars == <<lengths, batch_size, bin_size_arg, bin_size, idx, sorted_idx,
                  sampler_pc, iter_status, iter_out, iters>>
voc_vars == <<hp_hop_length, hp_voc_seq_len, hp_voc_pad, voc_batch, voc_pc,
              voc_mel_offsets, voc_sig_offsets, voc_mels, voc_labels, voc_x, voc_y>>
tts_vars == <<hp_tts_r, tts_batch, tts_pc, tts_chars, tts_mel_padded, tts_mel>>
split_vars == <<hp_voc_test_samples, voc_dataset, split_pc, shuffled_ids,
                train_ids, test_ids>>
load_vars == <<hp_tts_max_input_len, hp_tts_bin_lengths, tts_dataset, text_dict,
               tts_batch_size, load_pc, metadata, mel_lengths, tts_sampler,
               accessed, getitem_index, getitem_status>>
vars == <<sampler_vars, voc_vars, tts_vars, split_vars, load_vars>>

----------------------------------------------------------------------------
(* Bounds of the model *)

MaxN == 4            \* most examples handed to the sampler
MaxMelLen == 11      \* longest mel (frames) of a vocoder example
MaxTokLen == 2       \* longest token sequence of a TTS example
MaxSpecLen == 2      \* longest mel (frames) of a TTS example
MaxIds == 3          \* most records of a corpus

----------------------------------------------------------------------------
(* Python and numpy primitives *)

Min(a, b) == IF a < b THEN a ELSE b
Max(a, b) == IF a > b THEN a ELSE b

Range(s) == {s[i] : i \in DOMAIN s}

RECURSIVE SeqMax(_)
SeqMax(s) == IF Len(s) = 1 THEN s[1] ELSE Max(s[1], SeqMax(Tail(s)))

RECURSIVE Flatten(_)
Flatten(ss) == IF ss = <<>> THEN <<>> ELSE Head(ss) \o Flatten(Tail(ss))

Zeros(n) == [i \in 1..n |-> 0]

\* s[lo:hi] for integers lo, hi: a negative bound counts from the end, and
\* both are clipped to the sequence.
SliceBound(i, n) == IF i < 0 THEN Max(i + n, 0) ELSE Min(i, n)
PySlice(s, lo, hi) ==
    LET a == SliceBound(lo, Len(s))
        b == SliceBound(hi, Len(s))
    IN  IF a >= b THEN <<>> ELSE SubSeq(s, a + 1, b)

\* every ordering of the elements of a set, as sequences
RECURSIVE Orderings(_)
Orderings(S) ==
    IF S = {} THEN {<<>>}
    ELSE UNION {{<<x>> \o t : t \in Orderings(S \ {x})} : x \in S}

\* random.shuffle(s): s is left in any order of its elements
Shuffles(s) == {[i \in 1..Len(s) |-> s[p[i]]] : p \in Orderings(1..Len(s))}

\* all sequences over S of length lo..hi
SeqsOf(S, lo, hi) == UNION {[1..n -> S] : n \in lo..hi}

IsInjective(s) == \A i, j \in DOMAIN s : s[i] = s[j] => i = j

----------------------------------------------------------------------------
(* BinnedLengthSampler *)

LengthValues == {10, 20}
BatchSizes == {1, 2}
BinSizeArgs == {0, 2, 3}

\* torch.sort(lengths)[1]: the indices 0..N-1 in an order of ascending
\* length; the order among equal lengths is not fixed by the call.
SortIndices(ls) ==
    {s \in Orderings(0..(Len(ls) - 1)) :
        \A i \in 1..(Len(s) - 1) : ls[s[i] + 1] <= ls[s[i + 1] + 1]}

\* the loop of __iter__: each full bin, a view of idx, is shuffled in place;
\* FullBinShuffles is the set of arrays idx can hold after the loop.
RECURSIVE ShuffleBinsFrom(_, _, _)
ShuffleBinsFrom(a, bs, i) ==
    IF i < Len(a) \div bs
    THEN {this_bin \o rest :
            this_bin \in Shuffles(PySlice(a, i * bs, (i + 1) * bs)),
            rest \in ShuffleBinsFrom(a, bs, i + 1)}
    ELSE {PySlice(a, i * bs, Len(a))}

FullBinShuffles_Whole(a, bs) == Shuffles(a)

FullBinShuffles(a, bs) == ShuffleBinsFrom(a, bs, 0)

\* bins: the list of the views, in loop order
Bins(a, bs) == [i \in 1..(Len(a) \div bs) |-> PySlice(a, (i - 1) * bs, i * bs)]

\* np.stack(bins).reshape(-1)
StackFlat(bins) == Flatten(bins)

\* last_bin = idx[len(binned_idx):]; random.shuffle(last_bin): the arrays idx
\* can hold afterwards
LastBinShuffles_Early(a, done) ==
    {PySlice(a, 0, done - 1) \o last_bin :
        last_bin \in Shuffles(PySlice(a, done - 1, Len(a)))}

LastBinShuffles(a, done) ==
    {PySlice(a, 0, done) \o last_bin :
        last_bin \in Shuffles(PySlice(a, done, Len(a)))}

SamplerInit ==
    /\ lengths \in SeqsOf(LengthValues, 0, MaxN)
    /\ batch_size \in BatchSizes
    /\ bin_size_arg \in BinSizeArgs
    /\ bin_size = 0
    /\ idx = <<>>
    /\ sorted_idx = <<>>
    /\ sampler_pc = "new"
    /\ iter_status = "none"
    /\ iter_out = <<>>
    /\ iters = 0

SamplerIdle ==
    /\ lengths = <<>>
    /\ batch_size = 1
    /\ bin_size_arg = 0
    /\ bin_size = 0
    /\ idx = <<>>
    /\ sorted_idx = <<>>
    /\ sampler_pc = "idle"
    /\ iter_status = "none"
    /\ iter_out = <<>>
    /\ iters = 0

\* BinnedLengthSampler.__init__
BinnedLengthSampler_init ==
    /\ sampler_pc = "new"
    /\ \E s \in SortIndices(lengths) :
        /\ idx' = s
        /\ sorted_idx' = s
    /\ bin_size' = IF bin_size_arg # 0 THEN bin_size_arg ELSE batch_size * 4
    /\ sampler_pc' = IF bin_size' % batch_size = 0 THEN "ready" ELSE "AssertionError"
    /\ UNCHANGED <<lengths, batch_size, bin_size_arg, iter_status, iter_out, iters>>
    /\ UNCHANGED <<voc_vars, tts_vars, split_vars, load_vars>>

\* BinnedLengthSampler.__iter__
BinnedLengthSampler_iter ==
    /\ sampler_pc = "ready"
    /\ iters' = Min(iters + 1, 2)
    /\ \E a1 \in FullBinShuffles(idx, bin_size) :
       \E bins \in Shuffles(Bins(a1, bin_size)) :
          IF bins = <<>>
          THEN \* np.stack of an empty list raises, before last_bin is touched
               /\ iter_status' = "ValueError"
               /\ iter_out' = <<>>
               /\ idx' = a1
          ELSE LET binned_idx == StackFlat(bins)
               IN  /\ iter_status' = "ok"
                   /\ iter_out' = binned_idx
                   /\ IF Len(binned_idx) < Len(a1)
                      THEN idx' \in LastBinShuffles(a1, Len(binned_idx))
                      ELSE idx' = a1
    /\ UNCHANGED <<lengths, batch_size, bin_size_arg, bin_size, sorted_idx, sampler_pc>>
    /\ UNCHANGED <<voc_vars, tts_vars, split_vars, load_vars>>

\* BinnedLengthSampler.__len__
SamplerLen == Len(idx)


----------------------------------------------------------------------------
(* collate_vocoder *)

HopLengths == {1, 2, 3}
SeqFrames == {1, 2}      \* voc_seq_len is hop_length times one of these
VocPads == {0, 1, 2}
BatchLens == {1, 2}
MelChannels == {1, 2}

\* A vocoder example of T_m frames: each row (channel) of mel holds the frame
\* numbers 0..T_m-1 along the time axis, wav the sample numbers 0..T_w-1,
\* with T_w = T_m * hop (the alignment the feature extraction is relied on to
\* provide).
VocoderExample(T_m, hop) ==
    [mel |-> [c \in MelChannels |-> [t \in 1..T_m |-> t - 1]],
     wav |-> [s \in 1..(T_m * hop) |-> s - 1]]

\* x.shape[-1] of a 2-D array
LastDim(m) == Len(m[1])

\* m[:, lo:hi]
ColSlice(m, lo, hi) == [c \in DOMAIN m |-> PySlice(m[c], lo, hi)]

\* np.random.randint(low, high): the values it can return; none when
\* low >= high, where the call raises ValueError
RandInt_Clamped(low, high) == IF low >= high THEN {low} ELSE low..(high - 1)

RandInt(low, high) == low..(high - 1)

MelWin(seq_len, hop, pad) == seq_len \div hop + 2 * pad

MaxOffset_NoMargin(x, mel_win, pad) == LastDim(x.mel) - (mel_win - 2 * pad)

MaxOffset(x, mel_win, pad) == LastDim(x.mel) - (mel_win + 2 * pad)

SigOffset_NoPad(offset, pad, hop) == offset * hop

SigOffset(offset, pad, hop) == (offset + pad) * hop

\* np.stack(arrays) raises ValueError unless there is an array and all arrays
\* have one shape (1-D arrays here, 2-D arrays in CanStack2)
CanStack(arrays) ==
    /\ Len(arrays) > 0
    /\ \A i, j \in DOMAIN arrays : Len(arrays[i]) = Len(arrays[j])

CanStack2(arrays) ==
    /\ Len(arrays) > 0
    /\ \A i, j \in DOMAIN arrays :
        /\ DOMAIN arrays[i] = DOMAIN arrays[j]
        /\ LastDim(arrays[i]) = LastDim(arrays[j])

VocInit ==
    /\ hp_hop_length \in HopLengths
    /\ \E k \in SeqFrames : hp_voc_seq_len = hp_hop_length * k
    /\ hp_voc_pad \in VocPads
    /\ \E n \in BatchLens : \E T \in [1..n -> 0..MaxMelLen] :
          voc_batch = [i \in 1..n |-> VocoderExample(T[i], hp_hop_length)]
    /\ voc_pc = "new"
    /\ voc_mel_offsets = <<>>
    /\ voc_sig_offsets = <<>>
    /\ voc_mels = <<>>
    /\ voc_labels = <<>>
    /\ voc_x = <<>>
    /\ voc_y = <<>>

VocIdle ==
    /\ hp_hop_length = 1
    /\ hp_voc_seq_len = 1
    /\ hp_voc_pad = 0
    /\ voc_batch = <<>>
    /\ voc_pc = "idle"
    /\ voc_mel_offsets = <<>>
    /\ voc_sig_offsets = <<>>
    /\ voc_mels = <<>>
    /\ voc_labels = <<>>
    /\ voc_x = <<>>
    /\ voc_y = <<>>

collate_vocoder ==
    /\ voc_pc = "new"
    /\ LET B == DOMAIN voc_batch
           mel_win == MelWin(hp_voc_seq_len, hp_hop_length, hp_voc_pad)
           max_offsets == [i \in B |-> MaxOffset(voc_batch[i], mel_win, hp_voc_pad)]
       IN  IF \E i \in B : RandInt(0, max_offsets[i]) = {}
           THEN /\ voc_pc' = "ValueError"
                /\ UNCHANGED <<voc_mel_offsets, voc_sig_offsets, voc_mels,
                               voc_labels, voc_x, voc_y>>
           ELSE \E mel_offsets \in [B -> 0..MaxMelLen] :
                /\ \A i \in B : mel_offsets[i] \in RandInt(0, max_offsets[i])
                /\ LET sig_offsets ==
                           [i \in B |-> SigOffset(mel_offsets[i], hp_voc_pad, hp_hop_length)]
                       mels == [i \in B |->
                           ColSlice(voc_batch[i].mel, mel_offsets[i], mel_offsets[i] + mel_win)]
                       labels == [i \in B |->
                           PySlice(voc_batch[i].wav, sig_offsets[i],
                                   sig_offsets[i] + hp_voc_seq_len + 1)]
                   IN  /\ voc_mel_offsets' = mel_offsets
                       /\ voc_sig_offsets' = sig_offsets
                       /\ IF CanStack2(mels) /\ CanStack(labels)
                          THEN /\ voc_pc' = "returned"
                               /\ voc_mels' = mels
                               /\ voc_labels' = labels
                               /\ voc_x' = [i \in B |-> PySlice(labels[i], 0, hp_voc_seq_len)]
                               /\ voc_y' = [i \in B |-> PySlice(labels[i], 1, Len(labels[i]))]
                          ELSE /\ voc_pc' = "ValueError"
                               /\ UNCHANGED <<voc_mels, voc_labels, voc_x, voc_y>>
    /\ UNCHANGED <<hp_hop_length, hp_voc_seq_len, hp_voc_pad, voc_batch>>
    /\ UNCHANGED <<sampler_vars, tts_vars, split_vars, load_vars>>

----------------------------------------------------------------------------
(* collate_tts *)

TokenValues == {1, 2}
ReductionFactors == {1, 2, 3}

\* A TTS example: x is the token sequence; mel is one row per channel, T_m
\* values each, all non-zero so that content and padding differ.
TTSExample(tokens, T_m) ==
    [x |-> tokens,
     mel |-> [c \in MelChannels |-> [t \in 1..T_m |-> 10 * c + t]]]

\* np.pad(x, (0, max_len - len(x)), mode='constant')
pad1d(x, max_len) == x \o Zeros(max_len - Len(x))

\* np.pad(x, ((0, 0), (0, max_len - x.shape[-1])), mode='constant')
pad2d(x, max_len) ==
    [c \in DOMAIN x |-> x[c] \o Zeros(max_len - LastDim(x))]

RoundedSpecLen_NoEos(spec_lens, r) ==
    LET m == SeqMax(spec_lens)
    IN  IF (m % r) # 0 THEN m + (r - (m % r)) ELSE m

\* max_spec_len: the longest mel plus one, rounded up to a multiple of r
RoundedSpecLen(spec_lens, r) ==
    LET m == SeqMax(spec_lens) + 1
    IN  IF (m % r) # 0 THEN m + (r - (m % r)) ELSE m

Rescale_PaddingKept(mel) ==
    [i \in DOMAIN mel |-> [c \in DOMAIN mel[i] |->
        [t \in DOMAIN mel[i][c] |->
            IF mel[i][c][t] = 0 THEN 0 ELSE mel[i][c][t] * 8 - 4]]]

\* (mel * 8.) - 4. over the whole stacked array
Rescale(mel) ==
    [i \in DOMAIN mel |-> [c \in DOMAIN mel[i] |->
        [t \in DOMAIN mel[i][c] |-> mel[i][c][t] * 8 - 4]]]

TTSInit ==
    /\ hp_tts_r \in ReductionFactors
    /\ \E n \in BatchLens :
       \E toks \in [1..n -> SeqsOf(TokenValues, 0, MaxTokLen)] :
       \E T \in [1..n -> 0..MaxSpecLen] :
          tts_batch = [i \in 1..n |-> TTSExample(toks[i], T[i])]
    /\ tts_pc = "new"
    /\ tts_chars = <<>>
    /\ tts_mel_padded = <<>>
    /\ tts_mel = <<>>

TTSIdle ==
    /\ hp_tts_r = 1
    /\ tts_batch = <<>>
    /\ tts_pc = "idle"
    /\ tts_chars = <<>>
    /\ tts_mel_padded = <<>>
    /\ tts_mel = <<>>

collate_tts ==
    /\ tts_pc = "new"
    /\ LET B == DOMAIN tts_batch
           r == hp_tts_r
           x_lens == [i \in B |-> Len(tts_batch[i].x)]
           max_x_len == SeqMax(x_lens)
           chars == [i \in B |-> pad1d(tts_batch[i].x, max_x_len)]
           spec_lens == [i \in B |-> LastDim(tts_batch[i].mel)]
           max_spec_len == RoundedSpecLen(spec_lens, r)
           mel == [i \in B |-> pad2d(tts_batch[i].mel, max_spec_len)]
       IN  /\ tts_chars' = chars
           /\ tts_mel_padded' = mel
           /\ tts_mel' = Rescale(mel)
    /\ tts_pc' = "returned"
    /\ UNCHANGED <<hp_tts_r, tts_batch>>
    /\ UNCHANGED <<sampler_vars, voc_vars, split_vars, load_vars>>

----------------------------------------------------------------------------
(* get_vocoder_datasets *)

\* dataset.pkl: records <<id, length>> with unique ids
Corpora(lens) ==
    {d \in SeqsOf((1..MaxIds) \X lens, 0, MaxIds) :
        IsInjective([i \in DOMAIN d |-> d[i][1]])}

\* dataset_ids[-n:]
LastIds(ids, n) == PySlice(ids, -n, Len(ids))

\* dataset_ids[:-n]
AllButLastIds(ids, n) == PySlice(ids, 0, -n)

SplitInit ==
    /\ hp_voc_test_samples \in 0..(MaxIds + 1)
    /\ voc_dataset \in Corpora({100})
    /\ split_pc = "new"
    /\ shuffled_ids = <<>>
    /\ train_ids = <<>>
    /\ test_ids = <<>>

SplitIdle ==
    /\ hp_voc_test_samples = 0
    /\ voc_dataset = <<>>
    /\ split_pc = "idle"
    /\ shuffled_ids = <<>>
    /\ train_ids = <<>>
    /\ test_ids = <<>>

\* random.seed(1234); random.shuffle(dataset_ids) leaves one fixed order per
\* list length; which one is the generator's business, so any order is taken.
\* train_ids and test_ids are the metadata of the two VocoderDatasets the
\* returned loaders wrap.
get_vocoder_datasets ==
    /\ split_pc = "new"
    /\ LET dataset_ids == [i \in DOMAIN voc_dataset |-> voc_dataset[i][1]]
       IN  \E s \in Shuffles(dataset_ids) :
            /\ shuffled_ids' = s
            /\ test_ids' = LastIds(s, hp_voc_test_samples)
            /\ train_ids' = AllButLastIds(s, hp_voc_test_samples)
    /\ split_pc' = "returned"
    /\ UNCHANGED <<hp_voc_test_samples, voc_dataset>>
    /\ UNCHANGED <<sampler_vars, voc_vars, tts_vars, load_vars>>

----------------------------------------------------------------------------
(* get_tts_dataset and TTSDataset *)

TTSBinSize == 512        \* bin_size handed to the sampler
MaxInputLens == {20}     \* hp.tts_max_input_len
RecordLengths == {10, 30}
TTSBatchSizes == {2, 3}

\* text_dict.pkl: a text for some of the ids
TextDicts == UNION {[K -> {"text"}] : K \in SUBSET (1..MaxIds)}

\* the records get_tts_dataset keeps: those with len <= hp.tts_max_input_len
RECURSIVE KeptRecords(_, _)
KeptRecords(d, max_len) ==
    IF d = <<>> THEN <<>>
    ELSE IF Head(d)[2] <= max_len
         THEN <<Head(d)>> \o KeptRecords(Tail(d), max_len)
         ELSE KeptRecords(Tail(d), max_len)

\* self.text_dict[id] in __getitem__: the lookup raises KeyError unless id is
\* a key
HasText_Default(td, id) == TRUE

HasText(td, id) == id \in DOMAIN td

LoadInit ==
    /\ hp_tts_max_input_len \in MaxInputLens
    /\ hp_tts_bin_lengths \in BOOLEAN
    /\ tts_dataset \in Corpora(RecordLengths)
    /\ text_dict \in TextDicts
    /\ tts_batch_size \in TTSBatchSizes
    /\ load_pc = "new"
    /\ metadata = <<>>
    /\ mel_lengths = <<>>
    /\ tts_sampler = "none"
    /\ accessed = 0
    /\ getitem_index = 0
    /\ getitem_status = "none"

LoadIdle ==
    /\ hp_tts_max_input_len = 0
    /\ hp_tts_bin_lengths = FALSE
    /\ tts_dataset = <<>>
    /\ text_dict = <<>>
    /\ tts_batch_size = 1
    /\ load_pc = "idle"
    /\ metadata = <<>>
    /\ mel_lengths = <<>>
    /\ tts_sampler = "none"
    /\ accessed = 0
    /\ getitem_index = 0
    /\ getitem_status = "none"

get_tts_dataset ==
    /\ load_pc = "new"
    /\ LET kept == KeptRecords(tts_dataset, hp_tts_max_input_len)
           dataset_ids == [i \in DOMAIN kept |-> kept[i][1]]
           lens == [i \in DOMAIN kept |-> kept[i][2]]
       IN  /\ metadata' = dataset_ids
           /\ mel_lengths' = lens
           \* text_dict is loaded and handed to TTSDataset.__init__, which stores
           \* it; no key is looked up here
           /\ IF hp_tts_bin_lengths
              THEN \E s \in SortIndices(lens) :
                     /\ tts_sampler' = [idx |-> s, batch_size |-> tts_batch_size,
                                        bin_size |-> TTSBinSize]
                     /\ load_pc' = IF TTSBinSize % tts_batch_size = 0
                                   THEN "returned" ELSE "AssertionError"
              ELSE /\ tts_sampler' = "none"
                   /\ load_pc' = "returned"
    /\ UNCHANGED <<hp_tts_max_input_len, hp_tts_bin_lengths, tts_dataset, text_dict,
                   tts_batch_size, accessed, getitem_index, getitem_status>>
    /\ UNCHANGED <<sampler_vars, voc_vars, tts_vars, split_vars>>

\* TTSDataset.__getitem__(index), for an index of the dataset
TTSDataset_getitem ==
    /\ load_pc = "returned"
    /\ \E index \in 0..(Len(metadata) - 1) :
        LET id == metadata[index + 1]
        IN  /\ getitem_index' = index
            /\ getitem_status' = IF HasText(text_dict, id) THEN "ok" ELSE "KeyError"
    /\ accessed' = 1
    /\ UNCHANGED <<hp_tts_max_input_len, hp_tts_bin_lengths, tts_dataset, text_dict,
                   tts_batch_size, load_pc, metadata, mel_lengths, tts_sampler>>
    /\ UNCHANGED <<sampler_vars, voc_vars, tts_vars, split_vars>>

----------------------------------------------------------------------------
(* Specifications: one per entry point, the others idle *)

InitSampler == SamplerInit /\ VocIdle /\ TTSIdle /\ SplitIdle /\ LoadIdle
NextSampler == BinnedLengthSampler_init \/ BinnedLengthSampler_iter
SpecSampler == InitSampler /\ [][NextSampler]_vars

InitVocoder == SamplerIdle /\ VocInit /\ TTSIdle /\ SplitIdle /\ LoadIdle
NextVocoder == collate_vocoder
SpecVocoder == InitVocoder /\ [][NextVocoder]_vars

InitCollateTTS == SamplerIdle /\ VocIdle /\ TTSInit /\ SplitIdle /\ LoadIdle
NextCollateTTS == collate_tts
SpecCollateTTS == InitCollateTTS /\ [][NextCollateTTS]_vars

InitSplit == SamplerIdle /\ VocIdle /\ TTSIdle /\ SplitInit /\ LoadIdle
NextSplit == get_vocoder_datasets
SpecSplit == InitSplit /\ [][NextSplit]_vars

InitLoad == SamplerIdle /\ VocIdle /\ TTSIdle /\ SplitIdle /\ LoadInit
NextLoad == get_tts_dataset \/ TTSDataset_getitem
SpecLoad == InitLoad /\ [][NextLoad]_vars

Init == InitSampler \/ InitVocoder \/ InitCollateTTS \/ InitSplit \/ InitLoad
Next == NextSampler \/ NextVocoder \/ NextCollateTTS \/ NextSplit \/ NextLoad
Spec == Init /\ [][Next]_vars

----------------------------------------------------------------------------
(* Claims about BinnedLengthSampler, under SpecSampler *)

NumBins == Len(sorted_idx) \div bin_size
BinSet(a, k) == Range(PySlice(a, k * bin_size, (k + 1) * bin_size))

\* C1: one iteration yields every index of 0..N-1 exactly once, the full bins
\* followed by the shuffled remainder, so as many indices as __len__ reports.
C1_YieldsEveryIndexOnce ==
    (sampler_pc = "ready" /\ iters >= 1) =>
        /\ iter_status = "ok"
        /\ Len(iter_out) = SamplerLen
        /\ Range(iter_out) = 0..(Len(lengths) - 1)
        /\ PySlice(iter_out, NumBins * bin_size, Len(iter_out))
             = PySlice(idx, NumBins * bin_size, Len(idx))

\* C5: on the first iteration every full bin of the length-sorted indices
\* fills one bin_size-aligned slice of the output, so no slice mixes the
\* indices of two bins.
C5_FullBinsStayTogether ==
    (sampler_pc = "ready" /\ iters = 1 /\ iter_status = "ok") =>
        /\ Len(iter_out) >= NumBins * bin_size
        /\ \A k \in 0..(NumBins - 1) : \E j \in 0..(NumBins - 1) :
              BinSet(iter_out, j) = BinSet(sorted_idx, k)

\* two full bins come out in the other order, the first shuffled inside
C5_Witness ==
    /\ sampler_pc = "ready" /\ iters = 1 /\ iter_status = "ok"
    /\ NumBins >= 2
    /\ BinSet(iter_out, 0) = BinSet(sorted_idx, 1)
    /\ PySlice(iter_out, 0, bin_size) # PySlice(sorted_idx, bin_size, 2 * bin_size)
    /\ lengths[sorted_idx[1] + 1] < lengths[sorted_idx[Len(sorted_idx)] + 1]

\* C9: after any number of iterations the stored array is a permutation of
\* 0..N-1 and each bin_size-aligned slice of it, the remainder included,
\* holds the indices it held right after the sort.
C9_BinsPreservedAcrossEpochs ==
    sampler_pc = "ready" =>
        /\ Len(idx) = Len(lengths)
        /\ Range(idx) = 0..(Len(lengths) - 1)
        /\ \A k \in 0..NumBins : BinSet(idx, k) = BinSet(sorted_idx, k)

\* a second epoch has run, the array is no longer in sorted order, and there
\* is a remainder
C9_Witness ==
    /\ sampler_pc = "ready" /\ iters = 2 /\ iter_status = "ok"
    /\ idx # sorted_idx
    /\ Len(idx) % bin_size # 0

----------------------------------------------------------------------------
(* Claims about get_vocoder_datasets, under SpecSplit *)

\* C2: train_ids and test_ids share no id and test_ids is the last
\* voc_test_samples ids of the shuffled list, voc_test_samples of them; stated
\* here for the counts a corpus can supply (0 included).
C2_SplitDisjointAndSized ==
    (split_pc = "returned" /\ hp_voc_test_samples <= Len(voc_dataset)) =>
        /\ Range(train_ids) \cap Range(test_ids) = {}
        /\ Len(test_ids) = hp_voc_test_samples
        /\ train_ids \o test_ids = shuffled_ids

----------------------------------------------------------------------------
(* Claims about collate_vocoder, under SpecVocoder *)

VocShort(i) ==
    LastDim(voc_batch[i].mel)
        - ((hp_voc_seq_len \div hp_hop_length + 2 * hp_voc_pad) + 2 * hp_voc_pad) <= 0

\* C3: for an example with T_w = T_m * hop_length and a positive max_offset,
\* every drawn mel_offset lies in [0, max_offset), sig_offset is
\* (mel_offset + voc_pad) * hop_length, the mel crop is mel_win wide and the
\* waveform crop voc_seq_len + 1 long.
C3_CropsHaveFullWidth ==
    voc_pc = "returned" =>
        \A i \in DOMAIN voc_batch :
            (/\ Len(voc_batch[i].wav) = LastDim(voc_batch[i].mel) * hp_hop_length
             /\ ~VocShort(i))
            => /\ voc_mel_offsets[i] >= 0
               /\ voc_mel_offsets[i] + (hp_voc_seq_len \div hp_hop_length) + 4 * hp_voc_pad
                    < LastDim(voc_batch[i].mel)
               /\ voc_sig_offsets[i] = (voc_mel_offsets[i] + hp_voc_pad) * hp_hop_length
               /\ \A c \in DOMAIN voc_mels[i] :
                    Len(voc_mels[i][c]) = hp_voc_seq_len \div hp_hop_length + 2 * hp_voc_pad
               /\ Len(voc_labels[i]) = hp_voc_seq_len + 1

\* the largest offset of an example was drawn, with context padding
C3_Witness ==
    /\ voc_pc = "returned"
    /\ hp_voc_pad = 1
    /\ \E i \in DOMAIN voc_batch :
        /\ voc_mel_offsets[i] >= 1
        /\ voc_mel_offsets[i] + (hp_voc_seq_len \div hp_hop_length) + 4 * hp_voc_pad + 1
             = LastDim(voc_batch[i].mel)
        /\ Len(voc_labels[i]) = hp_voc_seq_len + 1

\* C8: one example with max_offset <= 0 makes the call fail without a batch,
\* whatever the others are; with every max_offset > 0 the call returns one
\* row per example.
C8_ShortExampleAbortsBatch ==
    voc_pc \in {"returned", "ValueError"} =>
        IF \E i \in DOMAIN voc_batch : VocShort(i)
        THEN /\ voc_pc = "ValueError"
             /\ voc_x = <<>> /\ voc_y = <<>> /\ voc_mels = <<>>
        ELSE /\ voc_pc = "returned"
             /\ Len(voc_x) = Len(voc_batch)
             /\ Len(voc_y) = Len(voc_batch)
             /\ Len(voc_mels) = Len(voc_batch)

\* a long enough example and a too short one: the call failed
C8_Witness ==
    /\ voc_pc = "ValueError"
    /\ Len(voc_batch) = 2
    /\ ~VocShort(1)
    /\ VocShort(2)
    /\ LastDim(voc_batch[2].mel) > 0

\* C10: the first voc_seq_len samples of the waveform crop are exactly the
\* samples of the frames of the mel crop without its voc_pad frames on each
\* side (a frame f owns the samples f * hop_length .. (f + 1) * hop_length - 1;
\* mel and wav hold their own frame and sample numbers).
C10_WaveformCropMatchesInnerFrames ==
    voc_pc = "returned" =>
        \A i \in DOMAIN voc_batch : \A c \in DOMAIN voc_mels[i] :
            LET inner == SubSeq(voc_mels[i][c], hp_voc_pad + 1,
                                Len(voc_mels[i][c]) - hp_voc_pad)
            IN  /\ Len(voc_x[i]) = hp_voc_seq_len
                /\ Len(inner) * hp_hop_length = hp_voc_seq_len
                /\ inner[1] = voc_mel_offsets[i] + hp_voc_pad
                /\ \A n \in 1..Len(voc_x[i]) :
                      voc_x[i][n] = inner[1] * hp_hop_length + (n - 1)
                /\ Range(voc_x[i]) =
                      UNION {(f * hp_hop_length)..((f + 1) * hp_hop_length - 1) :
                                f \in Range(inner)}

\* a crop of two frames of two samples with one context frame on each side,
\* not at the start of the example
C10_Witness ==
    /\ voc_pc = "returned"
    /\ hp_voc_pad = 1 /\ hp_hop_length = 2 /\ hp_voc_seq_len = 4
    /\ \E i \in DOMAIN voc_batch : voc_mel_offsets[i] > 0 /\ LastDim(voc_mels[i]) = 4

----------------------------------------------------------------------------
(* Claims about collate_tts, under SpecCollateTTS *)

TokenWidth == SeqMax([i \in DOMAIN tts_batch |-> Len(tts_batch[i].x)])
LongestMel == SeqMax([i \in DOMAIN tts_batch |-> LastDim(tts_batch[i].mel)])

\* C4: the token array is as wide as the longest token sequence; the mel
\* array's width is a multiple of r and at least the longest mel plus one;
\* token lengths 5, 8 and mel lengths 20, 17 with r = 5 give 8 and 25.
C4_BatchWidths ==
    /\ SeqMax(<<5, 8>>) = 8
    /\ RoundedSpecLen(<<20, 17>>, 5) = 25
    /\ tts_pc = "returned" =>
         \E W \in 0..(LongestMel + hp_tts_r) :
            /\ W % hp_tts_r = 0
            /\ W >= LongestMel + 1
            /\ \A i \in DOMAIN tts_batch :
                 /\ Len(tts_chars[i]) = TokenWidth
                 /\ \A c \in DOMAIN tts_mel[i] : Len(tts_mel[i][c]) = W

\* two examples of different lengths, and a longest mel of r frames, where
\* the extra frame forces a whole further group of r
C4_Witness ==
    /\ tts_pc = "returned"
    /\ Len(tts_batch) = 2
    /\ Len(tts_batch[1].x) < Len(tts_batch[2].x)
    /\ Len(tts_batch[1].mel[1]) > Len(tts_batch[2].mel[1])
    /\ hp_tts_r = 2 /\ LongestMel = 2
    /\ Len(tts_mel[1][1]) = 4

\* C6: tokens and mels keep their content as a left-aligned prefix, what
\* follows is zero before the rescale, and the rescale of the whole array
\* leaves -4 in the padded mel positions and 0 in the padded token positions.
C6_PaddingAndRescale ==
    tts_pc = "returned" =>
        \A i \in DOMAIN tts_batch :
            LET x == tts_batch[i].x
                m == tts_batch[i].mel
            IN  /\ SubSeq(tts_chars[i], 1, Len(x)) = x
                /\ \A t \in (Len(x) + 1)..Len(tts_chars[i]) : tts_chars[i][t] = 0
                /\ DOMAIN tts_mel[i] = DOMAIN m
                /\ DOMAIN tts_mel_padded[i] = DOMAIN m
                /\ \A c \in DOMAIN m :
                    /\ Len(tts_mel[i][c]) = Len(tts_mel_padded[i][c])
                    /\ SubSeq(tts_mel_padded[i][c], 1, Len(m[c])) = m[c]
                    /\ \A t \in 1..Len(m[c]) : tts_mel[i][c][t] = m[c][t] * 8 - 4
                    /\ \A t \in (Len(m[c]) + 1)..Len(tts_mel[i][c]) :
                        /\ tts_mel_padded[i][c][t] = 0
                        /\ tts_mel[i][c][t] = -4

\* an example with content and padding in both its tokens and its mel
C6_Witness ==
    /\ tts_pc = "returned"
    /\ \E i \in DOMAIN tts_batch :
        /\ 0 < Len(tts_batch[i].x) /\ Len(tts_batch[i].x) < Len(tts_chars[i])
        /\ tts_chars[i][Len(tts_chars[i])] = 0
        /\ 0 < Len(tts_batch[i].mel[2])
        /\ tts_mel[i][2][Len(tts_mel[i][2])] = -4
        /\ tts_mel[i][2][1] = (10 * 2 + 1) * 8 - 4

----------------------------------------------------------------------------
(* Claims about get_tts_dataset and TTSDataset, under SpecLoad *)

KeptIds ==
    LET kept == KeptRecords(tts_dataset, hp_tts_max_input_len)
    IN  [i \in DOMAIN kept |-> kept[i][1]]
SomeKeptIdHasNoText == \E i \in DOMAIN KeptIds : KeptIds[i] \notin DOMAIN text_dict

\* C7 as claimed: a kept id without a text makes get_tts_dataset fail, before
\* anything is returned or any record accessed.
C7_MissingTextFailsAtLoad ==
    (load_pc # "new" /\ SomeKeptIdHasNoText) =>
        /\ load_pc # "returned"
        /\ accessed = 0

\* C7 as amended: get_tts_dataset keeps the ids within tts_max_input_len and
\* returns or fails without regard to the text map; a kept id without a text
\* raises KeyError in __getitem__ when that record is accessed, and only then.
C7_MissingTextFailsAtAccess ==
    /\ load_pc # "new" =>
        /\ metadata = KeptIds
        /\ load_pc = "returned" <=>
              (~hp_tts_bin_lengths \/ TTSBinSize % tts_batch_size = 0)
    /\ accessed = 1 =>
        /\ load_pc = "returned"
        /\ getitem_status = "KeyError" <=>
              metadata[getitem_index + 1] \notin DOMAIN text_dict
        /\ getitem_status = "ok" <=>
              metadata[getitem_index + 1] \in DOMAIN text_dict

\* the load returned although a kept id has no text (another has one, and a
\* record was filtered out); the access of the id without a text raised
C7_Witness ==
    /\ load_pc = "returned"
    /\ accessed = 1
    /\ getitem_status = "KeyError"
    /\ \E i \in DOMAIN metadata : metadata[i] \in DOMAIN text_dict
    /\ Len(tts_dataset) > Len(metadata)

====
